---- MODULE Spec2Model ----
(***************************************************************************)
(* DeckPilot gamepad bridge: the SDL2 poll thread of gamepad.rs (device    *)
(* registry, button mapper, trigger debouncer, haptic dispatcher) and the  *)
(* trigger_haptic command of main.rs that feeds its mpsc channel.          *)
(***************************************************************************)
EXTENDS Integers, Sequences, FiniteSets, TLC

VARIABLES
    pc,              \* position of the poll thread
    enum_i,          \* loop variable i of the initial enumeration
    enum_n,          \* num_joysticks() as read when the enumeration began
    joysticks,       \* SDL's device list: the joysticks attached right now
    next_inst,       \* next joystick instance id SDL will hand out
    events,          \* SDL's event queue, read by event_pump.poll_iter()
    controllers,     \* Vec<GameController>
    haptic_devices,  \* Vec<Option<Haptic>>
    lt_pressed,
    rt_pressed,
    n_open,          \* handles opened so far (identity of controller handles)
    chan,            \* the mpsc channel haptic_tx -> haptic_rx
    sent,            \* per producer: requests sent on a live channel so far
    dispatched,      \* requests received by try_recv, in order
    status,          \* every "gamepad_status" payload emitted, in order
    buttons,         \* every "gamepad_button" payload emitted, in order
    rumbles,         \* every rumble_play call, in order
    held,            \* per (instance id, axis): trigger seen above threshold and
                     \* not yet below half of it, tracked per controller
    crossings,       \* upward crossings counted per controller, summed per axis
    used,            \* inputs the environment has produced so far, per kind
    probe,           \* a pair of vendor buttons handed to the mapper
    probe_out,       \* the mapper's answers for the pair
    last,            \* the event poll_iter() returned most recently
    run,             \* per trigger axis, while one controller is attached: samples
                     \* above the threshold in the current press, button events
                     \* emitted for it, and whether it has dropped below half
    subsys,          \* outcome of the four subsystem acquisitions
    tick,            \* what the current tick has seen: the requests pending when
                     \* it began and when its drain began, the instance ids its
                     \* events removed and the haptic handles they opened
    emit_up,         \* whether app.emit() succeeds right now
    lost,            \* emissions whose app.emit() returned Err, counted
    asked            \* the arguments of the latest trigger_haptic call, and
                     \* whether it returned without an error

vars ==
    << pc, enum_i, enum_n, joysticks, next_inst, events, controllers,
       haptic_devices, lt_pressed, rt_pressed, n_open, chan, sent, dispatched,
       status, buttons, rumbles, held, crossings, used, probe, probe_out, last, run,
       subsys, tick, emit_up, lost, asked >>

(***************************************************************************)
(* Bounds of the model.                                                    *)
(***************************************************************************)
MaxInitial == 1      \* joysticks attached when the thread starts
MaxPending == 1      \* events waiting in SDL's queue at once
NumProducers == 2    \* concurrent command handlers
PlugHot == 3         \* hot-plug inputs of SpecPlug
TrigHot == 2         \* hot-plug inputs of SpecTrigger
TrigAxis == 3        \* axis samples of SpecTrigger
BtnAxis == 1         \* axis samples of SpecButtons
BtnDown == 2         \* button presses of SpecButtons
HapHot == 2          \* hot-plug inputs of SpecHaptic
HapSend == 2         \* trigger_haptic calls of SpecHaptic
QueueSend == 4       \* trigger_haptic calls of SpecQueue
MaxChan == 2         \* requests in the channel while producers send without end
FloodHot == 2        \* hot-plug inputs of SpecFlood
MixHot == 1          \* hot-plug inputs of SpecMixed
MixInput == 1        \* button presses, and axis samples, of SpecMixed
MixSend == 1         \* trigger_haptic calls of SpecMixed
EmitHot == 1         \* hot-plug inputs of SpecEmit
EmitInput == 1       \* button presses, and axis samples, of SpecEmit
EmitSend == 1        \* trigger_haptic calls of SpecEmit

(***************************************************************************)
(* Program constants.                                                      *)
(***************************************************************************)
TRIGGER_THRESHOLD == 8000
UNMAPPED == 255
U16_MAX == 65535

\* sdl2::controller::Button
NamedButtons ==
    { "A", "B", "X", "Y", "Back", "Guide", "Start", "LeftStick", "RightStick",
      "LeftShoulder", "RightShoulder", "DPadUp", "DPadDown", "DPadLeft",
      "DPadRight" }

OtherButtons == { "Misc1", "Paddle1", "Paddle2", "Paddle3", "Paddle4", "Touchpad" }

Button == NamedButtons \cup OtherButtons

\* sdl2::controller::Axis (the four stick axes stand as two)
Axis == { "TriggerLeft", "TriggerRight", "LeftX" }

AxisValues == { 3999, 4000, 8000, 8001 }

DeviceNames == { "padA", "padB" }

\* the name SDL reports for a device: two pads of one make report the same name
NameOf(inst) == IF inst % 2 = 0 THEN "padA" ELSE "padB"

Producers == 1 .. NumProducers

\* strength is an f32 read from the JSON number of the command's arguments,
\* hence finite (JSON has no NaN, which f32::clamp would hand back as it is);
\* the model counts it in tenths
StrengthInputs == { -5, 5, 15 }

DurationInputs == { 0, 200 }

\* button_to_w3c numbering the buttons in a row, without the gap the W3C order
\* leaves for the two triggers
button_to_w3c_NoGap(button) ==
    CASE button = "A" -> 0
      [] button = "B" -> 1
      [] button = "X" -> 2
      [] button = "Y" -> 3
      [] button = "LeftShoulder" -> 4
      [] button = "RightShoulder" -> 5
      [] button = "Back" -> 6
      [] button = "Start" -> 7
      [] button = "LeftStick" -> 8
      [] button = "RightStick" -> 9
      [] button = "DPadUp" -> 10
      [] button = "DPadDown" -> 11
      [] button = "DPadLeft" -> 12
      [] button = "DPadRight" -> 13
      [] button = "Guide" -> 14
      [] OTHER -> 255

\* fn button_to_w3c(button: Button) -> u8
button_to_w3c(button) ==
    CASE button = "A" -> 0
      [] button = "B" -> 1
      [] button = "X" -> 2
      [] button = "Y" -> 3
      [] button = "LeftShoulder" -> 4
      [] button = "RightShoulder" -> 5
      [] button = "Back" -> 8
      [] button = "Start" -> 9
      [] button = "LeftStick" -> 10
      [] button = "RightStick" -> 11
      [] button = "DPadUp" -> 12
      [] button = "DPadDown" -> 13
      [] button = "DPadLeft" -> 14
      [] button = "DPadRight" -> 15
      [] button = "Guide" -> 16
      [] OTHER -> 255

(***************************************************************************)
(* Values.                                                                 *)
(***************************************************************************)
\* an SDL event; the handlers read only the fields of their own event type
Ev(t, w, b, a, v) == [type |-> t, which |-> w, button |-> b, axis |-> a, value |-> v]

\* Option<Haptic>: None, or Some(handle opened from controller handle `joy`)
NoHaptic == [some |-> FALSE, joy |-> 0]

SomeHaptic(handle) == [some |-> TRUE, joy |-> handle]

\* `as u16` on a float saturates
ToU16(x) == IF x < 0 THEN 0 ELSE IF x > U16_MAX THEN U16_MAX ELSE x

\* f32::clamp(0.0, 1.0), in tenths
Clamp(s) == IF s < 0 THEN 0 ELSE IF s > 10 THEN 10 ELSE s

\* (req.strength * 0.3 * 65535.0) as u16
RumbleLo(strength) == ToU16((strength * 3 * U16_MAX) \div 100)

\* (req.strength * 65535.0) as u16
RumbleHi(strength) == ToU16((strength * U16_MAX) \div 10)

\* Vec::remove(idx), idx counted from 0
RemoveAt(s, idx) == SubSeq(s, 1, idx) \o SubSeq(s, idx + 2, Len(s))

\* controllers.iter().position(|c| c.instance_id() == which): -1 stands for None
Position(cs, which) ==
    IF \E k \in 1 .. Len(cs) : cs[k].inst = which
    THEN (CHOOSE k \in 1 .. Len(cs) :
              /\ cs[k].inst = which
              /\ \A j \in 1 .. k - 1 : cs[j].inst # which) - 1
    ELSE -1

\* game_controller.is_game_controller(i)
IsGameController(i) == i < Len(joysticks) /\ joysticks[i + 1].gc

OpenInsts == { controllers[k].inst : k \in 1 .. Len(controllers) }

AttachedInsts == { joysticks[k].inst : k \in 1 .. Len(joysticks) }

SdlUp == pc \notin { "init", "dead" }

Running == pc \in { "pump", "drain", "sleep" }

(***************************************************************************)
(* The poll thread (gamepad.rs, spawn_gamepad_thread).                     *)
(***************************************************************************)
\* Opened keeping only a controller whose haptic device opened
\* (`if let Ok(h) = Haptic::from_joystick(..)` around the two pushes)
Opened_NeedsHaptic(dev, ok_haptic) ==
    /\ status' = Append(status, [connected |-> TRUE, name |-> dev.name])
    /\ n_open' = n_open + 1
    /\ IF ok_haptic
       THEN /\ haptic_devices' = Append(haptic_devices, SomeHaptic(n_open + 1))
            /\ controllers' =
                   Append(controllers,
                          [inst |-> dev.inst, name |-> dev.name, handle |-> n_open + 1])
       ELSE UNCHANGED << haptic_devices, controllers >>

\* the body of `if let Ok(controller) = game_controller.open(..)`
Opened(dev, ok_haptic) ==
    /\ status' = Append(status, [connected |-> TRUE, name |-> dev.name])
    /\ n_open' = n_open + 1
    /\ haptic_devices' =
           Append(haptic_devices,
                  IF ok_haptic THEN SomeHaptic(n_open + 1) ELSE NoHaptic)
    /\ controllers' =
           Append(controllers,
                  [inst |-> dev.inst, name |-> dev.name, handle |-> n_open + 1])

\* TryOpen with haptic_devices.push(..) placed after the `if let Ok(..)`
\* block, so that a failed open pushes a None
TryOpen_PushAlways(which) ==
    \E ok_open \in BOOLEAN, ok_haptic \in BOOLEAN :
        IF IsGameController(which) /\ ok_open
        THEN Opened(joysticks[which + 1], ok_haptic)
        ELSE /\ haptic_devices' = Append(haptic_devices, NoHaptic)
             /\ UNCHANGED << status, n_open, controllers >>

\* game_controller.open(which) and what follows it; the open fails for an index
\* that is no attached game controller, and may fail for any other
TryOpen(which) ==
    \E ok_open \in BOOLEAN, ok_haptic \in BOOLEAN :
        IF IsGameController(which) /\ ok_open
        THEN Opened(joysticks[which + 1], ok_haptic)
        ELSE UNCHANGED << status, n_open, haptic_devices, controllers >>

\* the requests of a channel, named by producer and number
IdSet(reqs) == { << reqs[i].from, reqs[i].seq >> : i \in 1 .. Len(reqs) }

\* a tick begins: the requests pending now, and nothing seen yet
TickStart ==
    [pending |-> IdSet(chan), at_drain |-> { }, removed |-> { }, added |-> { }]

\* what the events of this tick did to the registry: the instance id of a
\* removed entry, the handle of a controller opened with a haptic device
TrackTick(e) ==
    tick' =
        [tick EXCEPT
            !.removed = IF Len(controllers') < Len(controllers)
                        THEN @ \cup { e.which }
                        ELSE @,
            !.added = IF /\ Len(controllers') > Len(controllers)
                         /\ haptic_devices'[Len(haptic_devices')].some
                      THEN @ \cup { controllers'[Len(controllers')].handle }
                      ELSE @]

\* `let _ = app.emit(..)`: the Result of every emission of the step is dropped;
\* an emission made while the application takes no events returns Err
EmitResults ==
    lost' = IF emit_up
            THEN lost
            ELSE lost + (Len(status') - Len(status)) + (Len(buttons') - Len(buttons))

\* AcquireSubsystems with sdl.haptic().ok() in place of sdl.haptic().expect(..):
\* the thread goes on without the haptic subsystem
AcquireSubsystems_HapticOptional ==
    /\ pc = "init"
    /\ \E r \in { "ok", "sdl2", "game_controller", "haptic", "event_pump" } :
           /\ subsys' = r
           /\ IF r \in { "ok", "haptic" }
              THEN /\ pc' = "enum"
                   /\ enum_i' = 0
                   /\ enum_n' = Len(joysticks)
                   /\ chan' = chan
              ELSE /\ pc' = "dead"
                   /\ chan' = << >>
                   /\ UNCHANGED << enum_i, enum_n >>
    /\ UNCHANGED << joysticks, next_inst, events, controllers, haptic_devices,
                    lt_pressed, rt_pressed, n_open, sent, dispatched, status,
                    buttons, rumbles, held, crossings, used, probe, probe_out, last, run,
                    tick, emit_up, lost, asked >>

\* the four expect() calls: any of them panics the thread, which drops haptic_rx
AcquireSubsystems ==
    /\ pc = "init"
    /\ \E r \in { "ok", "sdl2", "game_controller", "haptic", "event_pump" } :
           /\ subsys' = r
           /\ IF r = "ok"
              THEN /\ pc' = "enum"
                   /\ enum_i' = 0
                   /\ enum_n' = Len(joysticks)
                   /\ chan' = chan
              ELSE /\ pc' = "dead"
                   /\ chan' = << >>
                   /\ UNCHANGED << enum_i, enum_n >>
    /\ UNCHANGED << joysticks, next_inst, events, controllers, haptic_devices,
                    lt_pressed, rt_pressed, n_open, sent, dispatched, status,
                    buttons, rumbles, held, crossings, used, probe, probe_out, last, run,
                    tick, emit_up, lost, asked >>

\* one turn of `for i in 0..num_joysticks()`, or the loop's end
EnumStep ==
    /\ pc = "enum"
    /\ IF enum_i < enum_n
       THEN /\ enum_i' = enum_i + 1
            /\ pc' = pc
            /\ IF IsGameController(enum_i)
               THEN TryOpen(enum_i)
               ELSE UNCHANGED << status, n_open, haptic_devices, controllers >>
            /\ tick' = tick
       ELSE /\ pc' = "pump"
            /\ UNCHANGED << enum_i, status, n_open, haptic_devices, controllers >>
            /\ tick' = TickStart
    /\ UNCHANGED << enum_n, joysticks, next_inst, events, lt_pressed, rt_pressed,
                    chan, sent, dispatched, buttons, rumbles, held, crossings,
                    used, probe, probe_out, last, run, subsys, emit_up, asked >>
    /\ EmitResults

\* Event::ControllerDeviceAdded { which, .. }
OnDeviceAdded(e) ==
    /\ TryOpen(e.which)
    /\ UNCHANGED << lt_pressed, rt_pressed, buttons, held, crossings >>

\* OnDeviceRemoved with haptic_devices.pop() in place of haptic_devices.remove(idx)
OnDeviceRemoved_HapticPop(e) ==
    LET idx == Position(controllers, e.which) IN
    IF idx # -1
    THEN /\ controllers' = RemoveAt(controllers, idx)
         /\ haptic_devices' = RemoveAt(haptic_devices, Len(haptic_devices) - 1)
         /\ status' =
                Append(status, [connected |-> FALSE, name |-> controllers[idx + 1].name])
         /\ lt_pressed' = FALSE
         /\ rt_pressed' = FALSE
         /\ held' = { h \in held : h[1] # e.which }
         /\ UNCHANGED << n_open, buttons, crossings >>
    ELSE UNCHANGED << controllers, haptic_devices, status, lt_pressed, rt_pressed,
                      held, n_open, buttons, crossings >>

\* OnDeviceRemoved reporting the name of the first entry, not of the removed one
OnDeviceRemoved_FirstName(e) ==
    LET idx == Position(controllers, e.which) IN
    IF idx # -1
    THEN /\ controllers' = RemoveAt(controllers, idx)
         /\ haptic_devices' = RemoveAt(haptic_devices, idx)
         /\ status' =
                Append(status, [connected |-> FALSE, name |-> controllers[1].name])
         /\ lt_pressed' = FALSE
         /\ rt_pressed' = FALSE
         /\ held' = { h \in held : h[1] # e.which }
         /\ UNCHANGED << n_open, buttons, crossings >>
    ELSE UNCHANGED << controllers, haptic_devices, status, lt_pressed, rt_pressed,
                      held, n_open, buttons, crossings >>

\* OnDeviceRemoved without its app.emit("gamepad_status", ..)
OnDeviceRemoved_Silent(e) ==
    LET idx == Position(controllers, e.which) IN
    IF idx # -1
    THEN /\ controllers' = RemoveAt(controllers, idx)
         /\ haptic_devices' = RemoveAt(haptic_devices, idx)
         /\ lt_pressed' = FALSE
         /\ rt_pressed' = FALSE
         /\ held' = { h \in held : h[1] # e.which }
         /\ UNCHANGED << status, n_open, buttons, crossings >>
    ELSE UNCHANGED << controllers, haptic_devices, status, lt_pressed, rt_pressed,
                      held, n_open, buttons, crossings >>

\* OnDeviceRemoved leaving the block when the emission fails (app.emit(..)
\* checked, not dropped), before the two flags are reset
OnDeviceRemoved_StopOnEmitErr(e) ==
    LET idx == Position(controllers, e.which) IN
    IF idx # -1
    THEN /\ controllers' = RemoveAt(controllers, idx)
         /\ haptic_devices' = RemoveAt(haptic_devices, idx)
         /\ status' =
                Append(status, [connected |-> FALSE, name |-> controllers[idx + 1].name])
         /\ lt_pressed' = IF emit_up THEN FALSE ELSE lt_pressed
         /\ rt_pressed' = IF emit_up THEN FALSE ELSE rt_pressed
         /\ held' = { h \in held : h[1] # e.which }
         /\ UNCHANGED << n_open, buttons, crossings >>
    ELSE UNCHANGED << controllers, haptic_devices, status, lt_pressed, rt_pressed,
                      held, n_open, buttons, crossings >>

\* OnDeviceRemoved with the two flag resets placed after the `if let`, so that
\* they run for an unknown instance id too
OnDeviceRemoved_ResetAlways(e) ==
    LET idx == Position(controllers, e.which) IN
    /\ lt_pressed' = FALSE
    /\ rt_pressed' = FALSE
    /\ IF idx # -1
       THEN /\ controllers' = RemoveAt(controllers, idx)
            /\ haptic_devices' = RemoveAt(haptic_devices, idx)
            /\ status' =
                   Append(status, [connected |-> FALSE, name |-> controllers[idx + 1].name])
            /\ held' = { h \in held : h[1] # e.which }
            /\ UNCHANGED << n_open, buttons, crossings >>
       ELSE UNCHANGED << controllers, haptic_devices, status, held, n_open, buttons,
                         crossings >>

\* Event::ControllerDeviceRemoved { which, .. }
OnDeviceRemoved(e) ==
    LET idx == Position(controllers, e.which) IN
    IF idx # -1
    THEN /\ controllers' = RemoveAt(controllers, idx)
         /\ haptic_devices' = RemoveAt(haptic_devices, idx)
         /\ status' =
                Append(status, [connected |-> FALSE, name |-> controllers[idx + 1].name])
         /\ lt_pressed' = FALSE
         /\ rt_pressed' = FALSE
         /\ held' = { h \in held : h[1] # e.which }
         /\ UNCHANGED << n_open, buttons, crossings >>
    ELSE UNCHANGED << controllers, haptic_devices, status, lt_pressed, rt_pressed,
                      held, n_open, buttons, crossings >>

\* OnButtonDown without the `if idx != 255` test
OnButtonDown_NoFilter(e) ==
    LET idx == button_to_w3c(e.button) IN
    /\ buttons' = Append(buttons, idx)
    /\ UNCHANGED << controllers, haptic_devices, status, lt_pressed, rt_pressed,
                    held, n_open, crossings >>

\* Event::ControllerButtonDown { button, .. }
OnButtonDown(e) ==
    LET idx == button_to_w3c(e.button) IN
    /\ buttons' = IF idx # UNMAPPED THEN Append(buttons, idx) ELSE buttons
    /\ UNCHANGED << controllers, haptic_devices, status, lt_pressed, rt_pressed,
                    held, n_open, crossings >>

\* the per-controller view of one trigger sample: an upward crossing of the
\* controller e.which is counted once until that controller's trigger has
\* been below half the threshold again
TrackCrossing(e) ==
    IF e.value > TRIGGER_THRESHOLD /\ << e.which, e.axis >> \notin held
    THEN /\ held' = held \cup { << e.which, e.axis >> }
         /\ crossings' = [crossings EXCEPT ![e.axis] = @ + 1]
    ELSE /\ held' = IF e.value < TRIGGER_THRESHOLD \div 2
                    THEN held \ { << e.which, e.axis >> }
                    ELSE held
         /\ crossings' = crossings

\* OnAxisMotion without the `&& !lt_pressed` and `&& !rt_pressed` tests
OnAxisMotion_NoLatch(e) ==
    /\ IF e.axis = "TriggerLeft"
       THEN /\ IF e.value > TRIGGER_THRESHOLD
               THEN /\ lt_pressed' = TRUE
                    /\ buttons' = Append(buttons, 6)
               ELSE /\ lt_pressed' =
                           IF e.value < TRIGGER_THRESHOLD \div 2 THEN FALSE ELSE lt_pressed
                    /\ buttons' = buttons
            /\ rt_pressed' = rt_pressed
            /\ TrackCrossing(e)
       ELSE IF e.axis = "TriggerRight"
       THEN /\ IF e.value > TRIGGER_THRESHOLD
               THEN /\ rt_pressed' = TRUE
                    /\ buttons' = Append(buttons, 7)
               ELSE /\ rt_pressed' =
                           IF e.value < TRIGGER_THRESHOLD \div 2 THEN FALSE ELSE rt_pressed
                    /\ buttons' = buttons
            /\ lt_pressed' = lt_pressed
            /\ TrackCrossing(e)
       ELSE UNCHANGED << lt_pressed, rt_pressed, buttons, held, crossings >>
    /\ UNCHANGED << controllers, haptic_devices, status, n_open >>

\* Event::ControllerAxisMotion { axis, value, .. }
OnAxisMotion(e) ==
    /\ IF e.axis = "TriggerLeft"
       THEN /\ IF e.value > TRIGGER_THRESHOLD /\ ~lt_pressed
               THEN /\ lt_pressed' = TRUE
                    /\ buttons' = Append(buttons, 6)
               ELSE /\ lt_pressed' =
                           IF e.value < TRIGGER_THRESHOLD \div 2 THEN FALSE ELSE lt_pressed
                    /\ buttons' = buttons
            /\ rt_pressed' = rt_pressed
            /\ TrackCrossing(e)
       ELSE IF e.axis = "TriggerRight"
       THEN /\ IF e.value > TRIGGER_THRESHOLD /\ ~rt_pressed
               THEN /\ rt_pressed' = TRUE
                    /\ buttons' = Append(buttons, 7)
               ELSE /\ rt_pressed' =
                           IF e.value < TRIGGER_THRESHOLD \div 2 THEN FALSE ELSE rt_pressed
                    /\ buttons' = buttons
            /\ lt_pressed' = lt_pressed
            /\ TrackCrossing(e)
       ELSE UNCHANGED << lt_pressed, rt_pressed, buttons, held, crossings >>
    /\ UNCHANGED << controllers, haptic_devices, status, n_open >>

\* what is kept of the event handled last: its type, device and button
Seen(e) == [type |-> e.type, which |-> e.which, button |-> e.button]

Triggers == { "TriggerLeft", "TriggerRight" }

\* the button index reserved for a trigger axis
TriggerIndex(a) == IF a = "TriggerLeft" THEN 6 ELSE 7

CountOf(seq, x) == Cardinality({ i \in 1 .. Len(seq) : seq[i] = x })

NoRun == [k |-> 0, n |-> 0, dropped |-> FALSE]

\* follows one press of a trigger of the only attached controller: a press
\* begins with the first sample above the threshold, k counts its samples
\* above the threshold, n the button events emitted for the axis since it
\* began, and dropped says that a sample below half the threshold ended it;
\* any change of the registry starts afresh
TrackRun(e) ==
    IF controllers' # controllers
    THEN run' = [a \in Triggers |-> NoRun]
    ELSE IF e.type = "ControllerAxisMotion" /\ e.axis \in Triggers /\ Len(controllers) = 1
    THEN LET r == run[e.axis]
             emitted == CountOf(buttons', TriggerIndex(e.axis))
                            - CountOf(buttons, TriggerIndex(e.axis))
         IN  run' =
                 [run EXCEPT
                     ![e.axis] =
                         IF e.value > TRIGGER_THRESHOLD
                         THEN IF r.k = 0 \/ r.dropped
                              THEN [k |-> 1, n |-> emitted, dropped |-> FALSE]
                              ELSE [k |-> r.k + 1, n |-> r.n + emitted, dropped |-> FALSE]
                         ELSE IF e.value < TRIGGER_THRESHOLD \div 2 /\ r.k >= 1
                         THEN [r EXCEPT !.dropped = TRUE]
                         ELSE [r EXCEPT !.n = @ + emitted]]
    ELSE run' = run

\* one call of poll_iter().next() in `for event in event_pump.poll_iter()`:
\* Some(event) runs the match on it, None ends the event loop of this tick
PollIter ==
    /\ pc = "pump"
    /\ IF events # << >>
       THEN /\ events' = Tail(events)
            /\ pc' = pc
            /\ LET e == Head(events) IN
               IF e.type = "ControllerDeviceAdded" THEN OnDeviceAdded(e)
               ELSE IF e.type = "ControllerDeviceRemoved" THEN OnDeviceRemoved(e)
               ELSE IF e.type = "ControllerButtonDown" THEN OnButtonDown(e)
               ELSE IF e.type = "ControllerAxisMotion" THEN OnAxisMotion(e)
               ELSE UNCHANGED << controllers, haptic_devices, status, lt_pressed,
                                 rt_pressed, held, n_open, buttons, crossings >>
            /\ last' = Seen(Head(events))
            /\ TrackRun(Head(events))
            /\ TrackTick(Head(events))
       ELSE /\ pc' = "drain"
            /\ tick' = [tick EXCEPT !.at_drain = IdSet(chan)]
            /\ UNCHANGED << events, controllers, haptic_devices, status, lt_pressed,
                            rt_pressed, held, n_open, buttons, crossings, last, run >>
    /\ EmitResults
    /\ UNCHANGED << enum_i, enum_n, joysticks, next_inst, chan, sent, dispatched,
                    rumbles, used, probe, probe_out, subsys, emit_up, asked >>

\* the logs `dispatched` and `rumbles` follow the requests that carry a number;
\* those of a producer that sends without end carry none
Numbered(req) == req.seq > 0

\* RumbleAll with a `break` after the first haptic device
RumbleAll_FirstOnly(hs, req) ==
    LET caps == { i \in 1 .. Len(hs) : hs[i].some } IN
    IF caps = { }
    THEN << >>
    ELSE << [h |-> hs[CHOOSE i \in caps : \A j \in caps : i <= j].joy,
             lo |-> RumbleLo(req.strength),
             hi |-> RumbleHi(req.strength),
             duration_ms |-> req.duration_ms] >>

\* `for h_opt in haptic_devices.iter()` for one request
RECURSIVE RumbleAll(_, _)
RumbleAll(hs, req) ==
    IF hs = << >>
    THEN << >>
    ELSE (IF Head(hs).some
          THEN << [h |-> Head(hs).joy,
                   lo |-> RumbleLo(req.strength),
                   hi |-> RumbleHi(req.strength),
                   duration_ms |-> req.duration_ms] >>
          ELSE << >>) \o RumbleAll(Tail(hs), req)

\* TryRecv that plays the first pending request and throws the others away
TryRecv_DropRest ==
    /\ pc = "drain"
    /\ IF chan # << >>
       THEN /\ chan' = << >>
            /\ rumbles' = IF Numbered(Head(chan))
                           THEN rumbles \o RumbleAll(haptic_devices, Head(chan))
                           ELSE rumbles
            /\ dispatched' = IF Numbered(Head(chan))
                              THEN Append(dispatched, << Head(chan).from, Head(chan).seq >>)
                              ELSE dispatched
            /\ pc' = pc
       ELSE /\ pc' = "sleep"
            /\ UNCHANGED << chan, rumbles, dispatched >>
    /\ UNCHANGED << enum_i, enum_n, joysticks, next_inst, events, controllers,
                    haptic_devices, lt_pressed, rt_pressed, n_open, sent, status,
                    buttons, held, crossings, used, probe, probe_out, last, run,
                    subsys, tick, emit_up, lost, asked >>

\* TryRecv that polls again on Err(Empty) instead of leaving the loop
TryRecv_Spin ==
    /\ pc = "drain"
    /\ pc' = pc
    /\ IF chan # << >>
       THEN /\ chan' = Tail(chan)
            /\ rumbles' = IF Numbered(Head(chan))
                           THEN rumbles \o RumbleAll(haptic_devices, Head(chan))
                           ELSE rumbles
            /\ dispatched' = IF Numbered(Head(chan))
                              THEN Append(dispatched, << Head(chan).from, Head(chan).seq >>)
                              ELSE dispatched
       ELSE UNCHANGED << chan, rumbles, dispatched >>
    /\ UNCHANGED << enum_i, enum_n, joysticks, next_inst, events, controllers,
                    haptic_devices, lt_pressed, rt_pressed, n_open, sent, status,
                    buttons, held, crossings, used, probe, probe_out, last, run,
                    subsys, tick, emit_up, lost, asked >>

\* TryRecv with `if let` in place of `while let`: one request a tick
TryRecv_OnePerTick ==
    /\ pc = "drain"
    /\ IF chan # << >>
       THEN /\ chan' = Tail(chan)
            /\ rumbles' = IF Numbered(Head(chan))
                           THEN rumbles \o RumbleAll(haptic_devices, Head(chan))
                           ELSE rumbles
            /\ dispatched' = IF Numbered(Head(chan))
                              THEN Append(dispatched, << Head(chan).from, Head(chan).seq >>)
                              ELSE dispatched
       ELSE UNCHANGED << chan, rumbles, dispatched >>
    /\ pc' = "sleep"
    /\ UNCHANGED << enum_i, enum_n, joysticks, next_inst, events, controllers,
                    haptic_devices, lt_pressed, rt_pressed, n_open, sent, status,
                    buttons, held, crossings, used, probe, probe_out, last, run,
                    subsys, tick, emit_up, lost, asked >>

\* one call of haptic_rx.try_recv() in `while let Ok(req) = ..`: Ok(req) plays
\* the request on every haptic device, Err(Empty) ends the drain of this tick
TryRecv ==
    /\ pc = "drain"
    /\ IF chan # << >>
       THEN /\ chan' = Tail(chan)
            /\ rumbles' = IF Numbered(Head(chan))
                           THEN rumbles \o RumbleAll(haptic_devices, Head(chan))
                           ELSE rumbles
            /\ dispatched' = IF Numbered(Head(chan))
                              THEN Append(dispatched, << Head(chan).from, Head(chan).seq >>)
                              ELSE dispatched
            /\ pc' = pc
       ELSE /\ pc' = "sleep"
            /\ UNCHANGED << chan, rumbles, dispatched >>
    /\ UNCHANGED << enum_i, enum_n, joysticks, next_inst, events, controllers,
                    haptic_devices, lt_pressed, rt_pressed, n_open, sent, status,
                    buttons, held, crossings, used, probe, probe_out, last, run,
                    subsys, tick, emit_up, lost, asked >>

\* thread::sleep(8 ms) returns and the loop starts its next tick
Wake ==
    /\ pc = "sleep"
    /\ pc' = "pump"
    /\ tick' = TickStart
    /\ UNCHANGED << enum_i, enum_n, joysticks, next_inst, events, controllers,
                    haptic_devices, lt_pressed, rt_pressed, n_open, chan, sent,
                    dispatched, status, buttons, rumbles, held, crossings, used,
                    probe, probe_out, last, run, subsys, emit_up, lost, asked >>

PollThread ==
    \/ AcquireSubsystems
    \/ EnumStep
    \/ PollIter
    \/ TryRecv
    \/ Wake

(***************************************************************************)
(* The environment: SDL's device layer and the command handlers.           *)
(***************************************************************************)
Spend(kind) == used' = [used EXCEPT ![kind] = @ + 1]

\* a joystick is plugged in: SDL gives it a fresh instance id and, for a game
\* controller, posts ControllerDeviceAdded with its device index, once
HwAttach(max) ==
    /\ SdlUp
    /\ used.hot < max
    /\ Len(events) < MaxPending
    /\ \E gc \in BOOLEAN :
           /\ joysticks' =
                  Append(joysticks,
                         [inst |-> next_inst, name |-> NameOf(next_inst), gc |-> gc,
                          announced |-> TRUE])
           /\ events' =
                  Append(events,
                         IF gc
                         THEN Ev("ControllerDeviceAdded", Len(joysticks), "A", "LeftX", 0)
                         ELSE Ev("JoyDeviceAdded", Len(joysticks), "A", "LeftX", 0))
    /\ next_inst' = next_inst + 1
    /\ Spend("hot")
    /\ UNCHANGED << pc, enum_i, enum_n, controllers, haptic_devices, lt_pressed,
                    rt_pressed, n_open, chan, sent, dispatched, status, buttons,
                    rumbles, held, crossings, probe, probe_out, last, run,
                    subsys, tick, emit_up, lost, asked >>

\* a joystick is unplugged: SDL posts ControllerDeviceRemoved with its instance id
HwDetach(max) ==
    /\ SdlUp
    /\ used.hot < max
    /\ Len(events) < MaxPending
    /\ \E k \in 1 .. Len(joysticks) :
           /\ joysticks' = RemoveAt(joysticks, k - 1)
           /\ events' =
                  Append(events,
                         IF joysticks[k].gc
                         THEN Ev("ControllerDeviceRemoved", joysticks[k].inst, "A", "LeftX", 0)
                         ELSE Ev("JoyDeviceRemoved", joysticks[k].inst, "A", "LeftX", 0))
    /\ Spend("hot")
    /\ UNCHANGED << pc, enum_i, enum_n, next_inst, controllers, haptic_devices,
                    lt_pressed, rt_pressed, n_open, chan, sent, dispatched, status,
                    buttons, rumbles, held, crossings, probe, probe_out, last, run,
                    subsys, tick, emit_up, lost, asked >>

\* SDL posts ControllerDeviceAdded, once, for a game controller that was
\* attached when the game controller subsystem started
HwAnnounce(max) ==
    /\ SdlUp
    /\ used.hot < max
    /\ Len(events) < MaxPending
    /\ \E k \in 1 .. Len(joysticks) :
           /\ joysticks[k].gc
           /\ ~joysticks[k].announced
           /\ joysticks' = [joysticks EXCEPT ![k].announced = TRUE]
           /\ events' = Append(events, Ev("ControllerDeviceAdded", k - 1, "A", "LeftX", 0))
    /\ Spend("hot")
    /\ UNCHANGED << pc, enum_i, enum_n, next_inst, controllers,
                    haptic_devices, lt_pressed, rt_pressed, n_open, chan, sent,
                    dispatched, status, buttons, rumbles, held, crossings, probe,
                    probe_out, last, run,
                    subsys, tick, emit_up, lost, asked >>

\* an open, attached controller reports an axis sample
HwAxis(max, axes) ==
    /\ SdlUp
    /\ used.axis < max
    /\ Len(events) < MaxPending
    /\ \E w \in OpenInsts \cap AttachedInsts, a \in axes, v \in AxisValues :
           /\ a = "LeftX" => v = 4000
           /\ events' = Append(events, Ev("ControllerAxisMotion", w, "A", a, v))
    /\ Spend("axis")
    /\ UNCHANGED << pc, enum_i, enum_n, joysticks, next_inst, controllers,
                    haptic_devices, lt_pressed, rt_pressed, n_open, chan, sent,
                    dispatched, status, buttons, rumbles, held, crossings, probe,
                    probe_out, last, run,
                    subsys, tick, emit_up, lost, asked >>

\* an open, attached controller reports a button press
HwButtonDown(max) ==
    /\ SdlUp
    /\ used.btn < max
    /\ Len(events) < MaxPending
    /\ \E w \in OpenInsts \cap AttachedInsts, b \in Button :
           events' = Append(events, Ev("ControllerButtonDown", w, b, "LeftX", 0))
    /\ Spend("btn")
    /\ UNCHANGED << pc, enum_i, enum_n, joysticks, next_inst, controllers,
                    haptic_devices, lt_pressed, rt_pressed, n_open, chan, sent,
                    dispatched, status, buttons, rumbles, held, crossings, probe,
                    probe_out, last, run,
                    subsys, tick, emit_up, lost, asked >>

\* trigger_haptic with strength.min(1.0) in place of strength.clamp(0.0, 1.0)
trigger_haptic_MinOnly(p, strength, duration_ms) ==
    /\ IF pc = "dead"
       THEN UNCHANGED << chan, sent >>
       ELSE /\ chan' =
                   Append(chan,
                          [strength |-> IF strength > 10 THEN 10 ELSE strength,
                           duration_ms |-> duration_ms,
                           from |-> p, seq |-> sent[p] + 1])
            /\ sent' = [sent EXCEPT ![p] = @ + 1]
    /\ asked' = [strength |-> strength, duration_ms |-> duration_ms, ok |-> TRUE]
    /\ Spend("send")
    /\ UNCHANGED << pc, enum_i, enum_n, joysticks, next_inst, events, controllers,
                    haptic_devices, lt_pressed, rt_pressed, n_open, dispatched,
                    status, buttons, rumbles, held, crossings, probe, probe_out, last, run,
                    subsys, tick, emit_up, lost >>

\* main.rs, trigger_haptic: one send on haptic_tx; the send fails, and its
\* result is dropped (`let _ =`), once the poll thread has panicked and
\* dropped haptic_rx
trigger_haptic(p, strength, duration_ms) ==
    /\ IF pc = "dead"
       THEN UNCHANGED << chan, sent >>
       ELSE /\ chan' =
                   Append(chan,
                          [strength |-> Clamp(strength), duration_ms |-> duration_ms,
                           from |-> p, seq |-> sent[p] + 1])
            /\ sent' = [sent EXCEPT ![p] = @ + 1]
    /\ asked' = [strength |-> strength, duration_ms |-> duration_ms, ok |-> TRUE]
    /\ Spend("send")
    /\ UNCHANGED << pc, enum_i, enum_n, joysticks, next_inst, events, controllers,
                    haptic_devices, lt_pressed, rt_pressed, n_open, dispatched,
                    status, buttons, rumbles, held, crossings, probe, probe_out, last, run,
                    subsys, tick, emit_up, lost >>

\* the application starts or stops taking events: from now on app.emit()
\* returns Ok, or Err
EmitToggle ==
    /\ SdlUp
    /\ emit_up' = ~emit_up
    /\ UNCHANGED << pc, enum_i, enum_n, joysticks, next_inst, events, controllers,
                    haptic_devices, lt_pressed, rt_pressed, n_open, chan, sent,
                    dispatched, status, buttons, rumbles, held, crossings, used,
                    probe, probe_out, last, run, subsys, tick, lost, asked >>

\* trigger_haptic called by producers that never stop: the same send, its
\* request without a number
Flood ==
    /\ pc # "dead"
    /\ Len(chan) < MaxChan
    /\ \E p \in Producers :
           chan' = Append(chan, [strength |-> Clamp(5), duration_ms |-> 200,
                                 from |-> p, seq |-> 0])
    /\ asked' = [strength |-> 5, duration_ms |-> 200, ok |-> TRUE]
    /\ UNCHANGED << pc, enum_i, enum_n, joysticks, next_inst, events, controllers,
                    haptic_devices, lt_pressed, rt_pressed, n_open, sent, dispatched,
                    status, buttons, rumbles, held, crossings, used, probe, probe_out,
                    last, run, subsys, tick, emit_up, lost >>

Command(max, strengths, durations) ==
    /\ used.send < max
    /\ \E p \in Producers, s \in strengths, d \in durations :
           trigger_haptic(p, s, d)

(***************************************************************************)
(* Initial states and specifications.                                      *)
(***************************************************************************)
\* the joysticks attached when the process starts, with instance ids 0, 1, ..
InitialJoysticks ==
    UNION { { js \in [1 .. n -> [inst : 0 .. n - 1, name : DeviceNames, gc : BOOLEAN,
                                 announced : { FALSE }]] :
                \A k \in 1 .. n : js[k].inst = k - 1 /\ js[k].name = NameOf(k - 1) }
            : n \in 0 .. MaxInitial }

InitState ==
    /\ pc = "init"
    /\ enum_i = 0
    /\ enum_n = 0
    /\ joysticks \in InitialJoysticks
    /\ next_inst = Len(joysticks)
    /\ events = << >>
    /\ controllers = << >>
    /\ haptic_devices = << >>
    /\ lt_pressed = FALSE
    /\ rt_pressed = FALSE
    /\ n_open = 0
    /\ chan = << >>
    /\ sent = [p \in Producers |-> 0]
    /\ dispatched = << >>
    /\ status = << >>
    /\ buttons = << >>
    /\ rumbles = << >>
    /\ held = { }
    /\ crossings = [a \in Triggers |-> 0]
    /\ used = [hot |-> 0, axis |-> 0, btn |-> 0, send |-> 0]
    /\ probe_out = << >>
    /\ last = [type |-> "None", which |-> 0, button |-> "A"]
    /\ run = [a \in Triggers |-> NoRun]
    /\ subsys = "pending"
    /\ tick = [pending |-> { }, at_drain |-> { }, removed |-> { }, added |-> { }]
    /\ emit_up = TRUE
    /\ lost = 0
    /\ asked = [strength |-> 0, duration_ms |-> 0, ok |-> TRUE]

Init ==
    /\ InitState
    /\ probe = << "A", "A" >>

\* hot-plug alone
NextPlug ==
    \/ PollThread
    \/ HwAttach(PlugHot)
    \/ HwDetach(PlugHot)
    \/ HwAnnounce(PlugHot)

SpecPlug == Init /\ [][NextPlug]_vars

\* hot-plug and trigger samples
NextTrigger ==
    \/ PollThread
    \/ HwAttach(TrigHot)
    \/ HwDetach(TrigHot)
    \/ HwAxis(TrigAxis, Triggers)

SpecTrigger == Init /\ [][NextTrigger]_vars

\* button presses and trigger samples
NextButtons ==
    \/ PollThread
    \/ HwAxis(BtnAxis, Axis)
    \/ HwButtonDown(BtnDown)

SpecButtons == Init /\ [][NextButtons]_vars

\* hot-plug and haptic requests
NextHaptic ==
    \/ PollThread
    \/ HwAttach(HapHot)
    \/ HwDetach(HapHot)
    \/ HwAnnounce(HapHot)
    \/ Command(HapSend, StrengthInputs, DurationInputs)

SpecHaptic == Init /\ [][NextHaptic]_vars

\* concurrent producers against the running loop
NextQueue ==
    \/ PollThread
    \/ Command(QueueSend, { 5 }, { 200 })

SpecQueue == Init /\ [][NextQueue]_vars

\* the poll thread is a thread of its own and is always scheduled again
FairQueue == SpecQueue /\ WF_vars(PollThread)

\* hot-plug, button presses, trigger samples and haptic requests together
NextMixed ==
    \/ PollThread
    \/ HwAttach(MixHot)
    \/ HwAxis(MixInput, Triggers)
    \/ HwButtonDown(MixInput)
    \/ Command(MixSend, { 5 }, { 200 })

SpecMixed == Init /\ [][NextMixed]_vars

\* every input, with emissions that succeed or fail
NextEmit ==
    \/ PollThread
    \/ EmitToggle
    \/ HwAttach(EmitHot)
    \/ HwDetach(EmitHot)
    \/ HwAxis(EmitInput, Triggers)
    \/ HwButtonDown(EmitInput)
    \/ Command(EmitSend, { 5 }, { 200 })

SpecEmit == Init /\ [][NextEmit]_vars

\* producers that send without end, and hot-plug events
NextFlood ==
    \/ PollThread
    \/ Flood
    \/ HwAttach(FloodHot)
    \/ HwDetach(FloodHot)

SpecFlood == Init /\ [][NextFlood]_vars

\* the poll thread is always scheduled again; nothing is assumed of the
\* producers
FairFlood == SpecFlood /\ WF_vars(PollThread)

\* the mapper alone, applied to every pair of vendor buttons
InitMapper ==
    /\ InitState
    /\ probe \in Button \X Button

MapProbe ==
    /\ probe_out = << >>
    /\ probe_out' = << button_to_w3c(probe[1]), button_to_w3c(probe[2]) >>
    /\ UNCHANGED << pc, enum_i, enum_n, joysticks, next_inst, events, controllers,
                    haptic_devices, lt_pressed, rt_pressed, n_open, chan, sent,
                    dispatched, status, buttons, rumbles, held, crossings, used,
                    probe, last, run,
                    subsys, tick, emit_up, lost, asked >>

SpecMapper == InitMapper /\ [][MapProbe]_vars

(***************************************************************************)
(* Properties.                                                             *)
(***************************************************************************)
\* s without its k-th element, k counted from 1
Without(s, k) == [i \in 1 .. Len(s) - 1 |-> IF i < k THEN s[i] ELSE s[i + 1]]

\* the step takes the first event off SDL's queue and handles it
Handles(type) ==
    /\ pc = "pump"
    /\ events # << >>
    /\ Head(events).type = type
    /\ events' = Tail(events)

\* C1: in every state the controller list and the haptic list have the same
\* length, and every haptic slot is absent or holds the handle that was opened
\* for the controller at the same index
RegistryAligned ==
    /\ Len(controllers) = Len(haptic_devices)
    /\ \A i \in 1 .. Len(haptic_devices) :
           haptic_devices[i].some => haptic_devices[i].joy = controllers[i].handle

\* a removal has left behind a controller with a haptic handle and one without
RegistryAlignedWitness ==
    /\ last.type = "ControllerDeviceRemoved"
    /\ \E k \in 1 .. Len(status) : ~status[k].connected
    /\ \E i, j \in 1 .. Len(haptic_devices) :
           haptic_devices[i].some /\ ~haptic_devices[j].some

\* C2, the open: a successful open emits exactly one {connected: true, name}
\* with the opened device's name and appends one entry to each list
OpenRoundTrip ==
    n_open' # n_open =>
        LET w == IF pc = "enum" THEN enum_i ELSE Head(events).which
            dev == joysticks[w + 1]
        IN  /\ status' = Append(status, [connected |-> TRUE, name |-> NameOf(dev.inst)])
            /\ Len(controllers') = Len(controllers) + 1
            /\ Len(haptic_devices') = Len(haptic_devices) + 1
            /\ SubSeq(controllers', 1, Len(controllers)) = controllers
            /\ SubSeq(haptic_devices', 1, Len(haptic_devices)) = haptic_devices
            /\ controllers'[Len(controllers')].inst = dev.inst

\* C2, the removal: a device-removed event for the instance id of an entry
\* emits exactly one {connected: false, name} with that device's name and
\* removes one element of each list, at one index, the others keeping their order
RemoveRoundTrip ==
    Handles("ControllerDeviceRemoved") /\ Head(events).which \in OpenInsts =>
        /\ status' =
               Append(status, [connected |-> FALSE, name |-> NameOf(Head(events).which)])
        /\ \E k \in 1 .. Len(controllers) :
               /\ controllers[k].inst = Head(events).which
               /\ controllers' = Without(controllers, k)
               /\ haptic_devices' = Without(haptic_devices, k)

\* C2: hot-plug round trip, every open and every removal of a known id
HotPlugRoundTrip == [][OpenRoundTrip /\ RemoveRoundTrip]_vars

\* a device was opened and later removed, both reported with one name, while
\* another controller stays in the registry
HotPlugRoundTripWitness ==
    /\ last.type = "ControllerDeviceRemoved"
    /\ Len(controllers) >= 1
    /\ \E i, j \in 1 .. Len(status) :
           /\ i < j
           /\ status[i].connected
           /\ ~status[j].connected
           /\ status[i].name = status[j].name

\* C3: a device-removed event whose instance id matches no entry changes
\* neither list, neither trigger flag, nor the status and button events
\* emitted so far
UnknownRemoveIsNoOp ==
    [][Handles("ControllerDeviceRemoved") /\ Head(events).which \notin OpenInsts
           => UNCHANGED << controllers, haptic_devices, lt_pressed, rt_pressed,
                           status, buttons >>]_vars

\* such an event has been handled while a trigger was pressed and a controller
\* was attached: no removal has been reported so far
UnknownRemoveWitness ==
    /\ last.type = "ControllerDeviceRemoved"
    /\ last.which \notin OpenInsts
    /\ \A k \in 1 .. Len(status) : status[k].connected
    /\ lt_pressed
    /\ Len(controllers) >= 1
    /\ buttons # << >>

\* C5: with one controller and no hot-plug in between, a press of a trigger
\* (it starts not pressed, k >= 1 samples above 8000, then a sample below
\* 4000) emits exactly one button event of the trigger's index, whatever k
SingleCrossingOnce ==
    \A a \in Triggers : run[a].k >= 1 => run[a].n = 1

\* a press of the left trigger with two or more samples above the threshold
\* has ended below half of it
SingleCrossingWitness ==
    /\ run["TriggerLeft"].k >= 2
    /\ run["TriggerLeft"].dropped
    /\ Len(controllers) = 1
    /\ CountOf(buttons, 6) = 1

\* C6: the button-6 (button-7) events emitted so far are as many as the
\* upward crossings of the left (right) trigger, counted per controller
CrossingsEmitOnce ==
    \A a \in Triggers : CountOf(buttons, TriggerIndex(a)) = crossings[a]

\* C7: removing one controller leaves the debounce state of the others as it
\* is, so no trigger emits a button event without a new upward crossing of
\* its own controller
NoEmissionWithoutCrossing ==
    \A a \in Triggers : CountOf(buttons, TriggerIndex(a)) <= crossings[a]

\* C4: the dispatch of one request issues one rumble per entry that holds a
\* haptic handle, each with the strength and duration of that request, and
\* with no such entry it issues none; the request leaves the queue and the
\* drain goes on
HapticFanOut ==
    [][dispatched' # dispatched =>
           LET req == Head(chan)
               caps == { i \in 1 .. Len(haptic_devices) : haptic_devices[i].some }
               new == SubSeq(rumbles', Len(rumbles) + 1, Len(rumbles'))
           IN  /\ SubSeq(rumbles', 1, Len(rumbles)) = rumbles
               /\ Len(new) = Cardinality(caps)
               /\ { new[j].h : j \in 1 .. Len(new) } = { haptic_devices[i].joy : i \in caps }
               /\ \A j \in 1 .. Len(new) :
                      /\ new[j].duration_ms = req.duration_ms
                      /\ new[j].hi = ToU16((req.strength * U16_MAX) \div 10)
                      /\ new[j].lo = ToU16((req.strength * 3 * U16_MAX) \div 100)
               /\ chan' = Tail(chan)
               /\ pc' = "drain"]_vars

\* one request at half strength has been played on two haptic devices while a
\* third controller has no haptic handle
HapticFanOutWitness ==
    /\ Len(dispatched) = 1
    /\ Len(rumbles) = 2
    /\ rumbles[1].h # rumbles[2].h
    /\ rumbles[1].hi = 32767
    /\ rumbles[2].hi = 32767
    /\ \E i \in 1 .. Len(haptic_devices) : ~haptic_devices[i].some

\* a request has been received while no entry held a haptic handle
HapticNoDeviceWitness ==
    /\ Len(dispatched) = 1
    /\ rumbles = << >>
    /\ pc = "drain"
    /\ Len(controllers) >= 1

\* the W3C Gamepad API index of every named vendor button
W3CTable ==
    [b \in NamedButtons |->
        CASE b = "A" -> 0
          [] b = "B" -> 1
          [] b = "X" -> 2
          [] b = "Y" -> 3
          [] b = "LeftShoulder" -> 4
          [] b = "RightShoulder" -> 5
          [] b = "Back" -> 8
          [] b = "Start" -> 9
          [] b = "LeftStick" -> 10
          [] b = "RightStick" -> 11
          [] b = "DPadUp" -> 12
          [] b = "DPadDown" -> 13
          [] b = "DPadLeft" -> 14
          [] b = "DPadRight" -> 15
          [] b = "Guide" -> 16]

\* C8: the mapper gives every named button its index of the table, different
\* buttons different indices, never 6 or 7, and 255 for any other identifier
MapperTable ==
    probe_out # << >> =>
        /\ \A i \in 1 .. 2 :
               /\ probe[i] \in NamedButtons => probe_out[i] = W3CTable[probe[i]]
               /\ probe[i] \notin NamedButtons => probe_out[i] = 255
               /\ probe_out[i] \notin { 6, 7 }
        /\ probe[1] \in NamedButtons /\ probe[2] \in NamedButtons /\ probe[1] # probe[2]
               => probe_out[1] # probe_out[2]

\* the mapper has answered for a named button and for one outside the table
MapperTableWitness ==
    /\ probe = << "Guide", "Touchpad" >>
    /\ probe_out = << 16, 255 >>

ButtonIndices == (0 .. 5) \cup (8 .. 16)

\* C9: a button-down the mapper sends to 255 emits nothing and changes no
\* state of the thread; any other button-down emits one index of 0..5, 8..16;
\* an axis sample emits nothing or one of 6, 7; nothing else emits a button
\* event, and 255 is never among the emitted
UnmappedSuppressed ==
    [][/\ Handles("ControllerButtonDown") =>
              IF button_to_w3c(Head(events).button) = UNMAPPED
              THEN UNCHANGED << buttons, status, controllers, haptic_devices,
                                lt_pressed, rt_pressed, n_open, chan, rumbles, pc >>
              ELSE \E x \in ButtonIndices : buttons' = Append(buttons, x)
       /\ Handles("ControllerAxisMotion") =>
              \/ buttons' = buttons
              \/ \E x \in { 6, 7 } : buttons' = Append(buttons, x)
       /\ ~Handles("ControllerButtonDown") /\ ~Handles("ControllerAxisMotion") =>
              buttons' = buttons
       /\ \A i \in 1 .. Len(buttons') : buttons'[i] # UNMAPPED]_vars

\* a button outside the table has been handled after a mapped button and a
\* trigger crossing had emitted their events
UnmappedSuppressedWitness ==
    /\ last.type = "ControllerButtonDown"
    /\ last.button \in OtherButtons
    /\ Len(buttons) = 2
    /\ \E i, j \in 1 .. 2 : buttons[i] \in { 6, 7 } /\ buttons[j] \in ButtonIndices

\* the (producer, number) of each request of a sequence of requests
Ids(reqs) == [i \in 1 .. Len(reqs) |-> << reqs[i].from, reqs[i].seq >>]

OfProducer(p, ids) == SelectSeq(ids, LAMBDA x : x[1] = p)

\* while the loop runs, the requests of each producer that were received,
\* followed by those still in the channel, are its requests 1, 2, .. in order:
\* none is lost, none is received twice, none overtakes another
ExactlyOnceSoFar ==
    Running =>
        \A p \in Producers :
            OfProducer(p, dispatched \o Ids(chan)) = [k \in 1 .. sent[p] |-> << p, k >>]

\* C10: with producers sending while the loop runs, every request sent is
\* received by the dispatcher once, in its producer's order, and none stays
\* in the channel for ever
ExactlyOnce ==
    /\ []ExactlyOnceSoFar
    /\ \A p \in Producers : \A k \in 1 .. QueueSend :
           (Running /\ sent[p] >= k) ~> (\E i \in 1 .. Len(dispatched) : dispatched[i] = << p, k >>)

\* the requests of two producers have been received interleaved, the last one
\* sent while the drain was under way
ExactlyOnceWitness ==
    /\ Running
    /\ Len(dispatched) >= 3
    /\ dispatched[1] = << 1, 1 >>
    /\ dispatched[2] = << 2, 1 >>
    /\ dispatched[3] = << 1, 2 >>
    /\ chan # << >>
    /\ pc = "drain"

\* the requests received so far, as a set
Received == { dispatched[i] : i \in 1 .. Len(dispatched) }

\* C11: the drain of a tick ends only on a receive that finds the queue empty;
\* by then every request that was queued when the drain began has been
\* received, and no request pending when a tick began is pending when the
\* next one begins
DrainToEmpty ==
    [][/\ pc = "drain" /\ pc' # "drain" =>
              /\ pc' = "sleep"
              /\ chan = << >>
              /\ chan' = << >>
              /\ tick.at_drain \subseteq Received
       /\ pc # "sleep" /\ pc' = "sleep" => pc = "drain"
       /\ pc = "sleep" /\ pc' = "pump" => tick.pending \cap IdSet(chan) = { }]_vars

\* a drain that began with two requests queued, one of them pending since the
\* tick began, has ended after a third one came in while it ran, and a fourth
\* waits for the next tick
DrainToEmptyWitness ==
    /\ pc = "sleep"
    /\ Cardinality(tick.at_drain) = 2
    /\ tick.pending # { }
    /\ Len(dispatched) = 3
    /\ chan # << >>

\* C12: a call of trigger_haptic puts on the queue one request whose strength
\* is the caller's value brought into [0, 1] (0 for a value below 0, 1 for a
\* value above 1) and whose duration_ms is the caller's value; every request
\* in the queue, and so every request the dispatcher receives, has its
\* strength within [0, 1]
ClampedAtBoundary ==
    [][/\ used'.send # used.send /\ pc # "dead" =>
              /\ Len(chan') = Len(chan) + 1
              /\ SubSeq(chan', 1, Len(chan)) = chan
              /\ LET req == chan'[Len(chan')] IN
                     /\ req.duration_ms = asked'.duration_ms
                     /\ asked'.strength < 0 => req.strength = 0
                     /\ asked'.strength > 10 => req.strength = 10
                     /\ asked'.strength \in 0 .. 10 => req.strength = asked'.strength
       /\ \A i \in 1 .. Len(chan') : chan'[i].strength \in 0 .. 10
       /\ dispatched' # dispatched => Head(chan).strength \in 0 .. 10]_vars

\* a call with strength 1.5 and 200 ms has queued a request of strength 1 and
\* 200 ms, after a request made with strength -0.5 was played at amplitude 0
ClampedAtBoundaryWitness ==
    /\ asked = [strength |-> 15, duration_ms |-> 200, ok |-> TRUE]
    /\ chan # << >>
    /\ chan[Len(chan)].strength = 10
    /\ chan[Len(chan)].duration_ms = 200
    /\ \E i \in 1 .. Len(rumbles) : rumbles[i].hi = 0 /\ rumbles[i].lo = 0

\* C13: once the acquisition of a subsystem has failed, the thread is
\* terminated and stays so: it never runs the loop, has emitted no status and
\* no button event, opened no controller and received no request; a
\* trigger_haptic call made afterwards returns without an error and its
\* request is never queued nor received
FailLoud ==
    [][subsys' \notin { "pending", "ok" } =>
           /\ pc' = "dead"
           /\ status' = << >>
           /\ buttons' = << >>
           /\ controllers' = << >>
           /\ haptic_devices' = << >>
           /\ n_open' = 0
           /\ dispatched' = << >>
           /\ rumbles' = << >>
           /\ chan' = << >>
           /\ asked'.ok
           /\ pc = "dead" /\ used.send < QueueSend =>
                  ENABLED Command(QueueSend, { 5 }, { 200 })]_vars

\* the haptic subsystem failed with a game controller attached; a request sent
\* before the failure was thrown away, and a call made after it has returned
FailLoudWitness ==
    /\ subsys = "haptic"
    /\ pc = "dead"
    /\ joysticks # << >>
    /\ joysticks[1].gc
    /\ sent[1] = 1
    /\ sent[2] = 0
    /\ used.send >= 2
    /\ asked.ok
    /\ chan = << >>

\* C14: a device-added event, or a turn of the initial enumeration, whose
\* open fails appends nothing to either list, emits no status event, leaves
\* every entry and both trigger flags as they are, and the loop goes on with
\* the next event or the next device
FailedOpenNoEffect ==
    [][/\ Handles("ControllerDeviceAdded") /\ n_open' = n_open =>
              /\ UNCHANGED << controllers, haptic_devices, status, buttons,
                              lt_pressed, rt_pressed, rumbles, chan >>
              /\ pc' = "pump"
       /\ pc = "enum" /\ enum_i' = enum_i + 1 /\ n_open' = n_open =>
              /\ UNCHANGED << controllers, haptic_devices, status, buttons,
                              lt_pressed, rt_pressed, rumbles, chan >>
              /\ pc' = "enum"]_vars

\* the one controller of the registry holds its left trigger; the open of a
\* second, attached game controller has failed, and the tick has gone on to
\* its drain and its sleep
FailedOpenWitness ==
    /\ last.type = "ControllerDeviceAdded"
    /\ pc = "sleep"
    /\ Len(joysticks) = 2
    /\ joysticks[2].gc
    /\ Len(controllers) = 1
    /\ Len(status) = 1
    /\ n_open = 1
    /\ lt_pressed

\* the event at the head of SDL's queue comes from a controller of the
\* registry whose haptic slot is absent
FromHapticless ==
    \E i \in 1 .. Len(controllers) :
        controllers[i].inst = Head(events).which /\ ~haptic_devices[i].some

\* C15: an open whose haptic device cannot be acquired still appends the
\* controller, with an absent haptic slot at the same index, and emits one
\* connected status event with its name; the button presses and the trigger
\* crossings of such a controller are emitted like any other's; a request is
\* played on every entry that holds a haptic handle and on no other
HapticlessStillServed ==
    [][/\ (/\ n_open' # n_open
           /\ ~\E i \in 1 .. Len(haptic_devices') :
                   haptic_devices'[i].some /\ haptic_devices'[i].joy = n_open') =>
              /\ Len(controllers') = Len(controllers) + 1
              /\ SubSeq(controllers', 1, Len(controllers)) = controllers
              /\ controllers'[Len(controllers')].handle = n_open'
              /\ haptic_devices' = Append(haptic_devices, NoHaptic)
              /\ Len(haptic_devices') = Len(controllers')
              /\ status' =
                     Append(status,
                            [connected |-> TRUE,
                             name |-> controllers'[Len(controllers')].name])
       /\ Handles("ControllerButtonDown") /\ FromHapticless =>
              /\ Head(events).button \in NamedButtons =>
                     buttons' = Append(buttons, W3CTable[Head(events).button])
              /\ Head(events).button \notin NamedButtons => buttons' = buttons
       /\ (/\ Handles("ControllerAxisMotion")
           /\ FromHapticless
           /\ Head(events).axis \in Triggers
           /\ Head(events).value > TRIGGER_THRESHOLD
           /\ Len(controllers) = 1
           /\ run[Head(events).axis].k = 0) =>
              buttons' = Append(buttons, TriggerIndex(Head(events).axis))
       /\ dispatched' # dispatched =>
              LET new == SubSeq(rumbles', Len(rumbles) + 1, Len(rumbles')) IN
              /\ \A i \in 1 .. Len(controllers) :
                     haptic_devices[i].some <=>
                         \E j \in 1 .. Len(new) : new[j].h = controllers[i].handle
              /\ Len(new) =
                     Cardinality({ i \in 1 .. Len(haptic_devices) : haptic_devices[i].some })]_vars

\* the registry holds a controller without a haptic handle and one with it;
\* a button of the first has been emitted and a request has been played on
\* the second alone
HapticlessWitness ==
    /\ Len(controllers) = 2
    /\ ~haptic_devices[1].some
    /\ haptic_devices[2].some
    /\ Len(status) = 2
    /\ last.type = "ControllerButtonDown"
    /\ last.which = controllers[1].inst
    /\ buttons = << 16 >>
    /\ Len(dispatched) = 1
    /\ Len(rumbles) = 1
    /\ rumbles[1].h = controllers[2].handle

\* the registry after an open of device index w: as it was when no handle was
\* opened, else with one entry for that device appended to each list
RegistryAfterOpen(w) ==
    IF n_open' = n_open
    THEN UNCHANGED << controllers, haptic_devices >>
    ELSE /\ controllers' =
                Append(controllers,
                       [inst |-> joysticks[w + 1].inst, name |-> joysticks[w + 1].name,
                        handle |-> n_open + 1])
         /\ \E slot \in { NoHaptic, SomeHaptic(n_open + 1) } :
                haptic_devices' = Append(haptic_devices, slot)

\* a trigger flag after a sample v of its own axis
FlagAfter(flag, v) ==
    IF v > TRIGGER_THRESHOLD /\ ~flag
    THEN TRUE
    ELSE IF v < TRIGGER_THRESHOLD \div 2 THEN FALSE ELSE flag

\* the registry and the trigger flags after the event e, as given by the state
\* before it and by e alone
LoopStateAfter(e) ==
    CASE e.type = "ControllerDeviceAdded" ->
             /\ RegistryAfterOpen(e.which)
             /\ UNCHANGED << lt_pressed, rt_pressed >>
      [] e.type = "ControllerDeviceRemoved" ->
             IF e.which \in OpenInsts
             THEN /\ \E k \in 1 .. Len(controllers) :
                         /\ controllers[k].inst = e.which
                         /\ \A j \in 1 .. k - 1 : controllers[j].inst # e.which
                         /\ controllers' = Without(controllers, k)
                         /\ haptic_devices' = Without(haptic_devices, k)
                  /\ ~lt_pressed'
                  /\ ~rt_pressed'
             ELSE UNCHANGED << controllers, haptic_devices, lt_pressed, rt_pressed >>
      [] e.type = "ControllerAxisMotion" ->
             /\ UNCHANGED << controllers, haptic_devices >>
             /\ lt_pressed' = IF e.axis = "TriggerLeft"
                              THEN FlagAfter(lt_pressed, e.value)
                              ELSE lt_pressed
             /\ rt_pressed' = IF e.axis = "TriggerRight"
                              THEN FlagAfter(rt_pressed, e.value)
                              ELSE rt_pressed
      [] OTHER -> UNCHANGED << controllers, haptic_devices, lt_pressed, rt_pressed >>

\* the rumble invocations of one request, as given by the haptic list and the
\* request alone
RumblesOf(req) ==
    LET caps == SelectSeq(haptic_devices, LAMBDA x : x.some) IN
    [j \in 1 .. Len(caps) |->
        [h |-> caps[j].joy,
         lo |-> ToU16((req.strength * 3 * U16_MAX) \div 100),
         hi |-> ToU16((req.strength * U16_MAX) \div 10),
         duration_ms |-> req.duration_ms]]

\* C16: whether the emissions of a step succeed or fail, the step leaves the
\* controller list, the haptic list and the trigger flags as the state before
\* it and its input alone determine, and the rumble invocations of a request
\* as the haptic list and the request determine; a failed emission is
\* attempted once and the thread stays in its loop
EmissionBlind ==
    [][/\ pc = "pump" /\ events # << >> /\ events' = Tail(events) =>
              /\ LoopStateAfter(Head(events))
              /\ rumbles' = rumbles
              /\ pc' = "pump"
       /\ pc = "enum" /\ enum_i' = enum_i + 1 =>
              /\ RegistryAfterOpen(enum_i)
              /\ UNCHANGED << lt_pressed, rt_pressed, rumbles >>
              /\ pc' = "enum"
       /\ dispatched' # dispatched =>
              /\ rumbles' = rumbles \o RumblesOf(Head(chan))
              /\ UNCHANGED << controllers, haptic_devices, lt_pressed, rt_pressed >>
       /\ lost' # lost =>
              /\ lost' = lost + 1
              /\ Len(status') + Len(buttons') = Len(status) + Len(buttons) + 1
              /\ pc' = pc
              /\ pc \in { "enum", "pump" }]_vars

\* the emissions of an open, of a trigger crossing and of a removal have all
\* failed; the controller was removed, the flags were reset, and the request
\* sent after the open was played
EmissionBlindWitness ==
    /\ lost = 3
    /\ status = << [connected |-> TRUE, name |-> "padA"],
                   [connected |-> FALSE, name |-> "padA"] >>
    /\ buttons = << 6 >>
    /\ controllers = << >>
    /\ ~lt_pressed
    /\ Len(rumbles) = 1
    /\ pc = "sleep"

\* the instance id of the controller whose handle is h
DeviceOf(h) ==
    controllers[CHOOSE i \in 1 .. Len(controllers) : controllers[i].handle = h].inst

\* C17: the drain of a tick begins only when the event loop has found SDL's
\* queue empty, and the sleep follows the drain; a request is played on the
\* registry as the events of the tick left it: on no controller that an event
\* of this tick removed, and on every controller still in the registry that
\* an event of this tick opened with a haptic device
SameTickRegistry ==
    [][/\ pc # "drain" /\ pc' = "drain" => pc = "pump" /\ events = << >>
       /\ pc # "sleep" /\ pc' = "sleep" => pc = "drain"
       /\ dispatched' # dispatched =>
              LET new == SubSeq(rumbles', Len(rumbles) + 1, Len(rumbles')) IN
              /\ \A j \in 1 .. Len(new) : DeviceOf(new[j].h) \notin tick.removed
              /\ \A h \in tick.added :
                     (\E i \in 1 .. Len(controllers) : controllers[i].handle = h)
                         => \E j \in 1 .. Len(new) : new[j].h = h]_vars

\* C19: once a device-removed event for an instance id has been handled, no
\* entry of the controller list has that id, and the instance ids of the list
\* are pairwise different
RemovedLeavesNone ==
    /\ last.type = "ControllerDeviceRemoved" => last.which \notin OpenInsts
    /\ \A i, j \in 1 .. Len(controllers) :
           i # j => controllers[i].inst # controllers[j].inst

\* status events emitted so far with the given flag and name
StatusCount(connected, name) ==
    Cardinality({ k \in 1 .. Len(status) :
                    status[k] = [connected |-> connected, name |-> name] })

\* C20: in every state, for every device name, the connected status events
\* emitted with that name less the disconnected ones are as many as the
\* controllers of that name in the list: their difference over all names is
\* the length of the controller list, and the names connected and not yet
\* disconnected are, with multiplicity, the names in the list
StatusMirrorsRegistry ==
    /\ \A n \in DeviceNames :
           StatusCount(TRUE, n) - StatusCount(FALSE, n) =
               Cardinality({ i \in 1 .. Len(controllers) : controllers[i].name = n })
    /\ \A k \in 1 .. Len(status) : status[k].name \in DeviceNames
    /\ Cardinality({ k \in 1 .. Len(status) : status[k].connected })
           - Cardinality({ k \in 1 .. Len(status) : ~status[k].connected })
       = Len(controllers)

\* three controllers were reported connected, two of one name; one of the two
\* has been removed, and one of each name is left
StatusMirrorsWitness ==
    /\ last.type = "ControllerDeviceRemoved"
    /\ StatusCount(TRUE, "padA") = 2
    /\ StatusCount(TRUE, "padB") = 1
    /\ StatusCount(FALSE, "padA") = 1
    /\ Len(controllers) = 2
    /\ controllers[1].name # controllers[2].name

\* every drain ends, the loop comes back to its event pump again and again,
\* and every event waiting in SDL's queue is handled
TickProgress ==
    /\ (pc = "drain") ~> (pc = "sleep")
    /\ Running ~> (pc = "pump")
    /\ (Running /\ events # << >>) ~> (events = << >>)

\* C18 as stated: once the loop runs, with producers free to send at any
\* moment and the poll thread always scheduled again, every drain ends, the
\* loop returns to the event pump infinitely often and every pending event is
\* handled
TickProgressAlways == TickProgress

\* C18, amended: the same, for producers that send only finitely many
\* requests
TickProgressFinite ==
    <>[][Len(chan') <= Len(chan)]_vars => TickProgress

\* a drain that began with requests queued has ended while a request sent
\* during it waits, after a hot-plug event was handled
TickProgressWitness ==
    /\ pc = "sleep"
    /\ tick.at_drain # { }
    /\ chan # << >>
    /\ last.type = "ControllerDeviceAdded"

====
